---- MODULE Spec2Model ----
(***************************************************************************)
(* The room / move state machine of server.js: the registry of rooms, the  *)
(* socket.io handlers createRoom, joinRoom, makeMove, restart, disconnect, *)
(* and checkWin.  One action models one complete handler run.             *)
(***************************************************************************)
EXTENDS Integers, Sequences, FiniteSets, TLC

VARIABLES
    connected,    \* socket ids of the live connections (io.on("connection"))
    socketRooms,  \* socketRooms[s]: socket.rooms minus socket.id, insertion order
    rooms,        \* the registry object: DOMAIN rooms = its keys
    roomOrder,    \* the registry's keys in insertion order (Object.entries order)
    crashed       \* a handler threw: the uncaught exception ends the process

vars == <<connected, socketRooms, rooms, roomOrder, crashed>>

----------------------------------------------------------------------------
(* Bounds of the model *)

MaxConns == 3       \* socket ids in use at the same time
MaxPieces == 3      \* pieces on a grid up to which moves are offered

ConnNames == <<"s1", "s2", "s3", "s4", "s5">>
Conns == {ConnNames[i] : i \in 1..MaxConns}

----------------------------------------------------------------------------
(* JavaScript values that reach the handlers *)

SIZE == 8

\* A coordinate sent by a client: any JSON value.  A number is int + half/2
\* (half = 1 is a non-integer such as 1.5); anything else has another typeof.
Num(i) == [type |-> "number", int |-> i, half |-> 0]
Frac(i) == [type |-> "number", int |-> i, half |-> 1]
NotANumber == [type |-> "string", int |-> 0, half |-> 0]

TypeOf(v) == v.type
Plus(v, d) == [v EXCEPT !.int = @ + d]
\* 0 <= v && v < SIZE on numbers
InRange(v) == v.int >= 0 /\ v.int < SIZE
\* v names an element of an array of length SIZE
IsIndex(v) == v.half = 0 /\ v.int \in 0..(SIZE - 1)
Key(v) == <<v.int, v.half>>

Null == "null"
Undefined == "undefined"
Black == "black"
White == "white"
Spectator == "spectator"
\* a falsy room id (undefined, null, "")
NoRoomId == ""

\* A room id sent by a client is any JSON value; the model writes it as a
\* string.  Seven is the number 7: socket.join(7) and io.to(7) keep it a number
\* (the adapter's Map has the key 7), rooms[7] reads the property "7".
Seven == "Number(7)"
\* the property key of rooms[roomId]: String(roomId)
PropKey(roomId) == IF roomId = Seven THEN "7" ELSE roomId
\* keys that Object.entries lists first, before the keys in insertion order
IndexKeys == {"7"}
\* rooms = {} inherits the properties of Object.prototype: rooms[key] is an
\* object for these keys (here a function) that is no room
ProtoKeys == {"constructor"}

----------------------------------------------------------------------------
(* Grid *)

\* The grid is SIZE row arrays of SIZE cells, all null at first.  A row, like
\* every JS object, also takes properties that are no index (row[1.5] = ...).
\* The model keeps the properties that were written, keyed by <<row, key>>:
\* an element never written reads null, any other property reads undefined.
createEmptyGrid == [p \in {} |-> Null]

\* grid[rr][cc], for rr an index
Elem(grid, rr, cc) ==
    IF <<rr.int, Key(cc)>> \in DOMAIN grid THEN grid[<<rr.int, Key(cc)>>]
    ELSE IF IsIndex(cc) THEN Null
    ELSE Undefined

\* grid[r][c] = role
SetElem(grid, r, c, role) ==
    [p \in DOMAIN grid \cup {<<r.int, Key(c)>>} |->
        IF p = <<r.int, Key(c)>> THEN role ELSE grid[p]]

Truthy(v) == v \notin {Null, Undefined}

\* (variant: the anti-diagonal is not looked at)
dirsWithoutAntiDiagonal == <<<<1, 0>>, <<0, 1>>, <<1, 1>>>>

dirs == <<<<1, 0>>, <<0, 1>>, <<1, 1>>, <<1, -1>>>>

\* one while loop of checkWin: cells equal to player from (rr, cc) on, step (dr, dc)
RECURSIVE CountRun(_, _, _, _, _, _)
CountRun(grid, player, rr, cc, dr, dc) ==
    IF InRange(rr) /\ InRange(cc) /\ Elem(grid, rr, cc) = player
    THEN 1 + CountRun(grid, player, Plus(rr, dr), Plus(cc, dc), dr, dc)
    ELSE 0

\* (variant: without the second loop, over the cells behind (r, c))
DirCountForward(grid, r, c, d) ==
    LET player == Elem(grid, r, c)
    IN  1 + CountRun(grid, player, Plus(r, d[1]), Plus(c, d[2]), d[1], d[2])

DirCount(grid, r, c, d) ==
    LET player == Elem(grid, r, c)
    IN  1 + CountRun(grid, player, Plus(r, d[1]), Plus(c, d[2]), d[1], d[2])
          + CountRun(grid, player, Plus(r, -d[1]), Plus(c, -d[2]), -d[1], -d[2])

WinCount == 4

checkWin(grid, r, c) ==
    \E i \in 1..Len(dirs) : DirCount(grid, r, c, dirs[i]) >= WinCount

----------------------------------------------------------------------------
(* Registry *)

Put(f, k, v) == [x \in DOMAIN f \cup {k} |-> IF x = k THEN v ELSE f[x]]
\* (variant: the property stays)
RemoveNothing(f, k) == f


Remove(f, k) == [x \in DOMAIN f \ {k} |-> f[x]]
Range(q) == {q[i] : i \in 1..Len(q)}

NoRoles == [x \in {} |-> Spectator]

NewRoom ==
    [grid |-> createEmptyGrid, players |-> <<>>, roleById |-> NoRoles,
     currentPlayer |-> Black, gameOver |-> FALSE]

\* (variant: the room is created anew on every call)
ensureRoomFresh(rs, roomId) == Put(rs, roomId, NewRoom)

\* rooms[roomId] is truthy: a room of the registry or an inherited property
Has(rs, roomId) == PropKey(roomId) \in DOMAIN rs \cup ProtoKeys

\* ensureRoom creates a room only when rooms[roomId] is falsy
ensureRoom(rs, roomId) ==
    IF Has(rs, roomId) THEN rs ELSE Put(rs, PropKey(roomId), NewRoom)

\* Object.keys(rooms) once `key' was added
Enlist(order, key) ==
    IF key \in Range(order) THEN order
    ELSE IF key \in IndexKeys THEN <<key>> \o order
    ELSE Append(order, key)

\* the first room of socket.rooms that the registry manages, null if none
findRoomForSocket(s) ==
    LET ours == SelectSeq(socketRooms[s], LAMBDA r : Has(rooms, r))
    IN  IF ours = <<>> THEN NoRoomId ELSE Head(ours)

\* io.sockets.adapter.rooms.get(roomId): the sockets that joined roomId
socketsInRoom(joined, live, roomId) ==
    {t \in live : roomId \in Range(joined[t])}

----------------------------------------------------------------------------
(* Messages *)

\* socket.emit(event, data)
Unicast(s, event, data) ==
    [to |-> "socket", id |-> s, event |-> event, data |-> data]
\* io.to(roomId).emit(event, data)
Broadcast(roomId, event, data) ==
    [to |-> "room", id |-> roomId, event |-> event, data |-> data]

\* what JSON carries of a grid: the SIZE x SIZE elements and no other
\* property; kept like the grid, as the elements that are not null
Board(grid) ==
    [p \in {q \in DOMAIN grid : IsIndex([type |-> "number", int |-> q[2][1], half |-> q[2][2]])}
        |-> grid[p]]

UpdateFull(s, room) ==
    Unicast(s, "updateFull", [grid |-> Board(room.grid),
                              currentPlayer |-> room.currentPlayer,
                              gameOver |-> room.gameOver])
RoomInfo(roomId, room) ==
    Broadcast(roomId, "roomInfo", [playersCount |-> Len(room.players)])

----------------------------------------------------------------------------
(* Handlers.  Each operator is one handler run on the current state and    *)
(* yields the registry it leaves and the messages it emits.                *)

\* (variant: length <= 2)
SeatFreeOffByOne(room) == Len(room.players) <= 2

\* a seat is free
SeatFree(room) == Len(room.players) < 2

\* role of the socket that was just pushed onto players
SeatRole(players) == IF Len(players) = 1 THEN Black ELSE White

joinRoom(s, roomId) ==
    IF roomId = NoRoomId
    THEN [rooms |-> rooms, joined |-> FALSE, threw |-> FALSE,
          out |-> <<Unicast(s, "errorMsg", [text |-> "No room id provided."])>>]
    \* ensureRoom returns the inherited object: room.players is undefined and
    \* room.players.length throws a TypeError
    ELSE IF PropKey(roomId) \in ProtoKeys
    THEN [rooms |-> rooms, joined |-> FALSE, threw |-> TRUE, out |-> <<>>]
    ELSE
      LET key == PropKey(roomId)
          rs == ensureRoom(rooms, roomId)
          room == rs[key]
      IN  IF SeatFree(room)
          THEN
            LET players == Append(room.players, s)
                role == SeatRole(players)
                seated == [room EXCEPT !.players = players,
                                       !.roleById = Put(@, s, role)]
            IN  [rooms |-> [rs EXCEPT ![key] = seated], joined |-> TRUE,
                 threw |-> FALSE,
                 out |-> <<Unicast(s, "playerAssigned", [role |-> role]),
                           RoomInfo(roomId, seated),
                           UpdateFull(s, seated)>>
                         \o (IF Len(players) = 2
                             THEN <<Broadcast(roomId, "startGame", [roomId |-> roomId])>>
                             ELSE <<>>)]
          ELSE
            LET watching == [room EXCEPT !.roleById = Put(@, s, Spectator)]
            IN  [rooms |-> [rs EXCEPT ![key] = watching], joined |-> TRUE,
                 threw |-> FALSE,
                 out |-> <<Unicast(s, "playerAssigned", [role |-> Spectator]),
                           UpdateFull(s, watching),
                           RoomInfo(roomId, watching)>>]

\* a handler that returns after one socket.emit, the registry untouched
Reject(s, event, text) ==
    [rooms |-> rooms, threw |-> FALSE, out |-> <<Unicast(s, event, [text |-> text])>>]

\* room.grid[r] is undefined for a number r that is no index: reading [c] of it
\* throws a TypeError, before anything is written or emitted
Throw == [rooms |-> rooms, threw |-> TRUE, out |-> <<>>]

RoleOf(room, s) ==
    IF s \in DOMAIN room.roleById THEN room.roleById[s] ELSE Spectator

\* (variant: the game-over check is missing)
GameNeverOver(room) == FALSE

GameIsOver(room) == room.gameOver

\* (variant: the occupied check is missing)
CellNeverTaken(grid, r, c) == FALSE

CellTaken(grid, r, c) == Truthy(Elem(grid, r, c))

\* (variant: the branches of the toggle are swapped)
NextPlayerStuck(p) == IF p = Black THEN Black ELSE White

NextPlayer(p) == IF p = Black THEN White ELSE Black

\* lines 127-138: the move passed every check
applyMove(roomId, room, role, r, c) ==
    LET key == PropKey(roomId)
        grid == SetElem(room.grid, r, c, role)
        update == Broadcast(roomId, "updateBoard", [r |-> r, c |-> c, player |-> role])
    IN  IF checkWin(grid, r, c)
        THEN [rooms |-> [rooms EXCEPT ![key] =
                            [room EXCEPT !.grid = grid, !.gameOver = TRUE]],
              threw |-> FALSE,
              out |-> <<update, Broadcast(roomId, "gameOver", [winner |-> role])>>]
        ELSE
          LET turn == NextPlayer(room.currentPlayer)
          IN  [rooms |-> [rooms EXCEPT ![key] =
                            [room EXCEPT !.grid = grid, !.currentPlayer = turn]],
               threw |-> FALSE,
               out |-> <<update, Broadcast(roomId, "turn", [currentPlayer |-> turn])>>]

\* payload: [null, roomId, r, c]; null = the client sent no payload
makeMove(s, payload) ==
    IF payload.null THEN Reject(s, "invalid", "Bad move payload")
    ELSE
      LET roomId == IF payload.roomId = NoRoomId THEN findRoomForSocket(s)
                    ELSE payload.roomId
          r == payload.r
          c == payload.c
      IN
      IF roomId = NoRoomId THEN Reject(s, "errorMsg", "Room not found for this socket.")
      ELSE IF ~Has(rooms, roomId) THEN Reject(s, "errorMsg", "Room does not exist.")
      \* the inherited object has no gameOver and no roleById:
      \* room.roleById[socket.id] throws a TypeError
      ELSE IF PropKey(roomId) \in ProtoKeys THEN Throw
      ELSE
        LET room == rooms[PropKey(roomId)]
            role == RoleOf(room, s)
        IN
        IF GameIsOver(room) THEN Reject(s, "invalid", "Game is over.")
        ELSE IF role = Spectator THEN Reject(s, "invalid", "Spectators cannot play.")
        ELSE IF room.currentPlayer # role THEN Reject(s, "invalid", "Not your turn.")
        ELSE IF TypeOf(r) # "number" \/ TypeOf(c) # "number"
          THEN Reject(s, "invalid", "Invalid cell coordinates.")
        ELSE IF ~InRange(r) \/ ~InRange(c) THEN Reject(s, "invalid", "Invalid cell.")
        ELSE IF ~IsIndex(r) THEN Throw
        ELSE IF CellTaken(room.grid, r, c) THEN Reject(s, "invalid", "Cell already occupied.")
        ELSE applyMove(roomId, room, role, r, c)

\* (variant: the turn is not given back to black)
restartKeepsTurn(s, givenId) ==
    LET roomId == IF givenId = NoRoomId THEN findRoomForSocket(s) ELSE givenId
        key == PropKey(roomId)
    IN  IF roomId = NoRoomId \/ key \notin DOMAIN rooms
        THEN [rooms |-> rooms, out |-> <<>>]
        ELSE [rooms |-> [rooms EXCEPT ![key].grid = createEmptyGrid,
                                      ![key].gameOver = FALSE],
              out |-> <<>>]

\* (variant: every room of the registry is reset)
restartAll(s, givenId) ==
    [rooms |-> [key \in DOMAIN rooms |->
                  [rooms[key] EXCEPT !.grid = createEmptyGrid,
                                     !.currentPlayer = Black,
                                     !.gameOver = FALSE]],
     out |-> <<>>]

restart(s, givenId) ==
    LET roomId == IF givenId = NoRoomId THEN findRoomForSocket(s) ELSE givenId
    IN  IF roomId = NoRoomId
        THEN [rooms |-> rooms,
              out |-> <<Unicast(s, "errorMsg", [text |-> "Room not found for restart."])>>]
        ELSE IF ~Has(rooms, roomId) THEN [rooms |-> rooms, out |-> <<>>]
        \* the three assignments write to the inherited object, which is no
        \* part of the registry
        ELSE IF PropKey(roomId) \in ProtoKeys
        THEN [rooms |-> rooms,
              out |-> <<Broadcast(roomId, "restart",
                            [grid |-> Board(createEmptyGrid),
                             currentPlayer |-> Black])>>]
        ELSE
          LET room == [rooms[PropKey(roomId)] EXCEPT !.grid = createEmptyGrid,
                                                     !.currentPlayer = Black,
                                                     !.gameOver = FALSE]
          IN  [rooms |-> [rooms EXCEPT ![PropKey(roomId)] = room],
               out |-> <<Broadcast(roomId, "restart",
                            [grid |-> Board(room.grid),
                             currentPlayer |-> room.currentPlayer])>>]

\* the loop of the disconnect handler over Object.entries(rooms); `joined' and
\* `live' are the adapter's view once socket s has left all its rooms
RECURSIVE disconnectScan(_, _, _, _, _)
disconnectScan(ids, rs, s, joined, live) ==
    IF ids = <<>> THEN [rooms |-> rs, out |-> <<>>]
    ELSE
      LET roomId == Head(ids)
          room == rs[roomId]
      IN  IF s \in DOMAIN room.roleById
          THEN
            LET left == [room EXCEPT !.players = SelectSeq(@, LAMBDA id : id # s),
                                     !.roleById = Remove(@, s),
                                     !.gameOver = TRUE]
                rs2 == IF socketsInRoom(joined, live, roomId) = {}
                       THEN Remove(rs, roomId)
                       ELSE [rs EXCEPT ![roomId] = left]
                rest == disconnectScan(Tail(ids), rs2, s, joined, live)
            IN  [rooms |-> rest.rooms,
                 out |-> <<RoomInfo(roomId, left),
                           Broadcast(roomId, "playerLeft", [id |-> s])>> \o rest.out]
          ELSE disconnectScan(Tail(ids), rs, s, joined, live)

----------------------------------------------------------------------------
(* Actions.  The messages a handler emits leave the server at once and are  *)
(* no part of its state: the actions keep the registry the handler leaves,  *)
(* and the claims about messages read the handler's `out'.                  *)

Init ==
    /\ connected = {}
    /\ socketRooms = [s \in Conns |-> <<>>]
    /\ rooms = [id \in {} |-> NewRoom]
    /\ roomOrder = <<>>
    /\ crashed = FALSE

\* io.on("connection"): a new socket.  Its id is fresh; the model names it by
\* an id no live socket has (nothing refers to the id of a closed socket).
Connect(s) ==
    /\ ~crashed
    /\ s \notin connected
    /\ connected' = connected \cup {s}
    /\ socketRooms' = [socketRooms EXCEPT ![s] = <<>>]
    /\ UNCHANGED <<rooms, roomOrder, crashed>>

\* roomId is the identifier uuidv4 happens to produce
CreateRoom(s, roomId) ==
    /\ ~crashed
    /\ s \in connected
    /\ rooms' = ensureRoom(rooms, roomId)
    /\ roomOrder' = Enlist(roomOrder, PropKey(roomId))
    /\ UNCHANGED <<connected, socketRooms, crashed>>

JoinRoom(s, roomId) ==
    /\ ~crashed
    /\ s \in connected
    /\ LET res == joinRoom(s, roomId)
       IN  /\ rooms' = res.rooms
           /\ roomOrder' = IF res.joined THEN Enlist(roomOrder, PropKey(roomId))
                           ELSE roomOrder
           \* socket.join(roomId): socket.rooms is a Set
           /\ socketRooms' = IF res.joined /\ roomId \notin Range(socketRooms[s])
                             THEN [socketRooms EXCEPT ![s] = Append(@, roomId)]
                             ELSE socketRooms
           /\ crashed' = res.threw
    /\ UNCHANGED connected

MakeMove(s, payload) ==
    /\ ~crashed
    /\ s \in connected
    /\ LET res == makeMove(s, payload)
       IN  /\ rooms' = res.rooms
           /\ crashed' = res.threw
    /\ UNCHANGED <<connected, socketRooms, roomOrder>>

Restart(s, roomId) ==
    /\ ~crashed
    /\ s \in connected
    /\ rooms' = restart(s, roomId).rooms
    /\ UNCHANGED <<connected, socketRooms, roomOrder, crashed>>

\* socket.io empties socket.rooms before it emits "disconnect"
Disconnect(s) ==
    /\ ~crashed
    /\ s \in connected
    /\ LET live == connected \ {s}
           joined == [socketRooms EXCEPT ![s] = <<>>]
           res == disconnectScan(roomOrder, rooms, s, joined, live)
       IN  /\ connected' = live
           /\ socketRooms' = joined
           /\ rooms' = res.rooms
           /\ roomOrder' = SelectSeq(roomOrder, LAMBDA id : id \in DOMAIN res.rooms)
    /\ UNCHANGED crashed

----------------------------------------------------------------------------
(* Inputs offered by clients *)

RoomIds == {"A"}
JoinIds == RoomIds \cup ProtoKeys \cup {NoRoomId}

MovePayload(roomId, r, c) == [null |-> FALSE, roomId |-> roomId, r |-> r, c |-> c]
NullPayload == [null |-> TRUE, roomId |-> NoRoomId, r |-> NotANumber, c |-> NotANumber]

\* coordinates that are no cell: not numbers, outside the grid, non-integer
BadCoords ==
    {<<NotANumber, Num(0)>>, <<Num(0), NotANumber>>,
     <<Num(-1), Num(0)>>, <<Num(SIZE), Num(0)>>,
     <<Num(0), Num(-1)>>, <<Num(0), Num(SIZE)>>,
     <<Frac(0), Num(0)>>, <<Num(0), Frac(0)>>}

\* pieces on a grid: the properties that hold a role
Pieces(grid) == Cardinality(DOMAIN grid)

\* the registry key a payload addresses when socket s sends it
TargetOf(s, payload) ==
    PropKey(IF payload.roomId = NoRoomId THEN findRoomForSocket(s) ELSE payload.roomId)

\* a move is offered while its room holds fewer than cap pieces
Offered(s, payload, cap) ==
    LET id == TargetOf(s, payload)
    IN  id \in DOMAIN rooms => Pieces(rooms[id].grid) < cap

(* Spec: every event, MaxConns sockets, play on two cells of row 0 *)

PlayCells == {<<0, 0>>, <<0, 1>>}

MovePayloads ==
    {NullPayload}
    \cup {MovePayload(id, Num(cell[1]), Num(cell[2])) : id \in JoinIds, cell \in PlayCells}
    \cup {MovePayload(NoRoomId, bad[1], bad[2]) : bad \in BadCoords}
    \cup {MovePayload(key, Num(0), Num(0)) : key \in ProtoKeys}

Next ==
    \/ \E s \in Conns : Connect(s)
    \/ \E s \in Conns, roomId \in RoomIds : CreateRoom(s, roomId)
    \/ \E s \in Conns, roomId \in JoinIds : JoinRoom(s, roomId)
    \/ \E s \in Conns, payload \in MovePayloads :
          Offered(s, payload, MaxPieces) /\ MakeMove(s, payload)
    \/ \E s \in Conns, roomId \in JoinIds : Restart(s, roomId)
    \/ \E s \in Conns : Disconnect(s)

Spec == Init /\ [][Next]_vars

(* SpecGame: two sockets play one room to the end.  Each connection joins   *)
(* the room once (repeated joins are in Spec).  Black plays on cells that   *)
(* hold a line of four in each direction, white on four cells, one inside   *)
(* black's row and one next to it.                                          *)

MaxGamePieces == 7

GameConns == {"s1", "s2"}
GameRoom == "A"

BlackCells ==
    {<<0, 0>>, <<0, 1>>, <<0, 2>>, <<0, 3>>, <<0, 4>>,    \* row 0
     <<1, 1>>, <<2, 2>>, <<3, 3>>,                        \* diagonal from (0,0)
     <<1, 3>>, <<3, 1>>,                                  \* anti-diagonal from (0,4)
     <<2, 1>>}                                            \* column 1
WhiteCells == {<<0, 2>>, <<0, 5>>, <<5, 6>>, <<7, 7>>}

GamePayloads ==
    {MovePayload(NoRoomId, Num(cell[1]), Num(cell[2])) : cell \in BlackCells \cup WhiteCells}

\* a seated client plays the cells of its colour
GameOffered(s, payload) ==
    /\ Offered(s, payload, MaxGamePieces)
    /\ GameRoom \in DOMAIN rooms =>
          LET role == RoleOf(rooms[GameRoom], s)
              cell == <<payload.r.int, payload.c.int>>
          IN  /\ role = Black => cell \in BlackCells
              /\ role = White => cell \in WhiteCells

NextGame ==
    \/ \E s \in GameConns : Connect(s)
    \/ \E s \in GameConns :
          GameRoom \notin Range(socketRooms[s]) /\ JoinRoom(s, GameRoom)
    \/ \E s \in GameConns, payload \in GamePayloads :
          GameOffered(s, payload) /\ MakeMove(s, payload)
    \/ \E s \in GameConns : Restart(s, GameRoom)
    \/ \E s \in GameConns : Disconnect(s)

SpecGame == Init /\ [][NextGame]_vars

(* SpecRooms: two sockets and two rooms, one of them named by a number.    *)
(* Every event with every room id; play is on one cell per room.           *)

RoomsConns == {"s1", "s2"}
ManyIds == {"A", Seven}
AnyIds == ManyIds \cup ProtoKeys \cup {NoRoomId}

RoomsPayloads ==
    {MovePayload(id, Num(0), Num(0)) : id \in ManyIds \cup {NoRoomId}}

NextRooms ==
    \/ \E s \in RoomsConns : Connect(s)
    \/ \E s \in RoomsConns, roomId \in RoomIds : CreateRoom(s, roomId)
    \/ \E s \in RoomsConns, roomId \in AnyIds : JoinRoom(s, roomId)
    \/ \E s \in RoomsConns, payload \in RoomsPayloads : MakeMove(s, payload)
    \/ \E s \in RoomsConns, roomId \in AnyIds : Restart(s, roomId)
    \/ \E s \in RoomsConns : Disconnect(s)

SpecRooms == Init /\ [][NextRooms]_vars

----------------------------------------------------------------------------
(* Claims *)

Seated(room) == Range(room.players)
\* roles that roleById gives to the sockets in the seated list
SeatedRoles(room) == {room.roleById[s] : s \in Seated(room) \cap DOMAIN room.roleById}

RestartStep == \E s \in Conns, roomId \in JoinIds : Restart(s, roomId)

\* C1: in every room with a seated participant, currentPlayer is the role of
\* a seated connection, and never 'spectator'.
C1_TurnHolderIsSeated ==
    \A id \in DOMAIN rooms :
        rooms[id].players # <<>> =>
            /\ rooms[id].currentPlayer \in SeatedRoles(rooms[id])
            /\ rooms[id].currentPlayer # Spectator

\* C2: whenever two participants are seated, they are two different
\* connections, exactly one 'black' and exactly one 'white'.
C2_SeatsHoldBlackAndWhite ==
    \A id \in DOMAIN rooms :
        LET room == rooms[id]
        IN  Len(room.players) = 2 =>
              /\ room.players[1] # room.players[2]
              /\ Cardinality({s \in Seated(room) : RoleOf(room, s) = Black}) = 1
              /\ Cardinality({s \in Seated(room) : RoleOf(room, s) = White}) = 1

\* C3: no event changes the role a connection holds in a room (the role only
\* disappears, when the connection disconnects), no seated connection holds
\* 'spectator', and no connection holds both seats.
C3_RoleIsImmutable ==
    [][\A id \in DOMAIN rooms \cap DOMAIN rooms' :
          /\ \A s \in DOMAIN rooms[id].roleById \cap DOMAIN rooms'[id].roleById :
                rooms'[id].roleById[s] = rooms[id].roleById[s]
          /\ \A s \in Seated(rooms'[id]) : RoleOf(rooms'[id], s) # Spectator
          /\ Cardinality(Seated(rooms'[id])) = Len(rooms'[id].players)]_vars

\* C4: a room never has more than two seated participants.
C4_AtMostTwoSeated ==
    \A id \in DOMAIN rooms : Len(rooms[id].players) <= 2

\* a room whose two seats are taken and that a third join has reached
C4_Witness ==
    \E id \in DOMAIN rooms :
        /\ Len(rooms[id].players) = 2
        /\ \E s \in DOMAIN rooms[id].roleById \ Seated(rooms[id]) :
              rooms[id].roleById[s] = Spectator

\* C5: in a room that stays in the registry, gameOver goes from true to
\* false by a restart only: joinRoom, makeMove and disconnect keep it true.
C5_GameOverLatch ==
    [][\/ \A id \in DOMAIN rooms \cap DOMAIN rooms' :
             rooms[id].gameOver => rooms'[id].gameOver
       \/ RestartStep]_vars

\* a finished game (seven pieces) that black has left and whose free seat a
\* later join has taken: the game is still over
C5_Witness ==
    \E id \in DOMAIN rooms :
        /\ rooms[id].gameOver
        /\ Pieces(rooms[id].grid) = MaxGamePieces
        /\ Len(rooms[id].players) = 2
        /\ \A s \in Seated(rooms[id]) : RoleOf(rooms[id], s) = White

AllPayloads == MovePayloads \cup GamePayloads

\* the grid property a payload's coordinates name
CellKey(payload) == <<payload.r.int, Key(payload.c)>>

\* C6: in a room that stays in the registry, an occupied cell keeps its value
\* unless the step is a restart, and a cell becomes occupied only by a
\* makeMove, with the role of the socket that moved.
C6_CellsAreImmutable ==
    [][\/ \A id \in DOMAIN rooms \cap DOMAIN rooms' :
            LET old == rooms[id].grid
                new == rooms'[id].grid
            IN  /\ \A p \in DOMAIN old : p \in DOMAIN new /\ new[p] = old[p]
                /\ \A p \in DOMAIN new \ DOMAIN old :
                      \E s \in connected, payload \in AllPayloads :
                          /\ ~payload.null
                          /\ p = CellKey(payload)
                          /\ new[p] = RoleOf(rooms[id], s)
                          /\ MakeMove(s, payload)
       \/ RestartStep]_vars

\* both colours on the grid of a room that a participant has left since
C6_Witness ==
    \E id \in DOMAIN rooms :
        /\ {rooms[id].grid[p] : p \in DOMAIN rooms[id].grid} = {Black, White}
        /\ Len(rooms[id].players) = 1
        /\ rooms[id].gameOver

\* The checks of a move in the order the claims give them, for a payload whose
\* room exists: the reason of the first one that fails, or "accepted".
FirstFailing(s, payload) ==
    LET room == rooms[TargetOf(s, payload)]
        r == payload.r
        c == payload.c
    IN  IF room.gameOver THEN "Game is over."
        ELSE IF s \notin DOMAIN room.roleById \/ room.roleById[s] = Spectator
          THEN "Spectators cannot play."
        ELSE IF room.roleById[s] # room.currentPlayer THEN "Not your turn."
        ELSE IF r.type # "number" \/ c.type # "number" THEN "Invalid cell coordinates."
        ELSE IF r.int < 0 \/ r.int >= SIZE \/ c.int < 0 \/ c.int >= SIZE THEN "Invalid cell."
        ELSE IF r.half = 0 /\ CellKey(payload) \in DOMAIN room.grid
          THEN "Cell already occupied."
        ELSE "accepted"

Resolved(s, payload) == ~payload.null /\ TargetOf(s, payload) \in DOMAIN rooms

Rejected(s, payload) ==
    \/ payload.null                              \* missing payload
    \/ TargetOf(s, payload) \notin DOMAIN rooms  \* room not found
    \/ FirstFailing(s, payload) # "accepted"

\* what a run of makeMove did: "accepted", "TypeError", or the text it sent
Outcome(res) ==
    IF res.threw THEN "TypeError"
    ELSE IF res.out[1].event = "updateBoard" THEN "accepted"
    ELSE res.out[1].data.text

\* C7: a rejected makeMove leaves the registry as it was and sends one
\* message, to the socket that sent the move; nothing goes to the room.
C7_RejectionChangesNothing ==
    \A s \in connected, payload \in AllPayloads :
        (~crashed /\ Rejected(s, payload)) =>
            LET res == makeMove(s, payload)
            IN  /\ res.rooms = rooms
                /\ ~res.threw
                /\ Len(res.out) = 1
                /\ res.out[1].to = "socket"
                /\ res.out[1].id = s
                /\ res.out[1].event \in {"invalid", "errorMsg"}

\* C8: makeMove answers with the reason of the first failing check in the
\* order game over, not a player, not your turn, (malformed,) out of bounds,
\* cell occupied, and accepts the move iff no check fails.
C8_FirstFailingCheckDecides ==
    \A s \in connected, payload \in AllPayloads :
        (~crashed /\ Resolved(s, payload)) =>
            Outcome(makeMove(s, payload)) = FirstFailing(s, payload)

\* the cell (r + k*dr, c + k*dc) lies on the grid and holds role
Holds(grid, r, c, k, d, role) ==
    LET rr == Plus(r, k * d[1])
        cc == Plus(c, k * d[2])
    IN  /\ rr.int >= 0 /\ rr.int < SIZE /\ cc.int >= 0 /\ cc.int < SIZE
        /\ <<rr.int, Key(cc)>> \in DOMAIN grid
        /\ grid[<<rr.int, Key(cc)>>] = role

\* on one of the four axes, four contiguous cells that include (r, c) hold role
RunThrough(grid, r, c, role) ==
    \E d \in {<<1, 0>>, <<0, 1>>, <<1, 1>>, <<1, -1>>} :
        \E first \in -3..0 :
            \A k \in first..(first + 3) : Holds(grid, r, c, k, d, role)

HasEvent(msgs, event) == \E i \in 1..Len(msgs) : msgs[i].event = event

\* C9: an accepted move of role p at (r, c) sets gameOver and broadcasts
\* gameOver{winner: p} iff, on the grid after it, an axis holds a run of at
\* least four p-cells through (r, c).
C9_WinIffRunOfFour ==
    \A s \in connected, payload \in AllPayloads :
        (~crashed /\ Resolved(s, payload)
                  /\ Outcome(makeMove(s, payload)) = "accepted") =>
            LET id == TargetOf(s, payload)
                role == rooms[id].roleById[s]
                res == makeMove(s, payload)
                run == RunThrough(res.rooms[id].grid, payload.r, payload.c, role)
            IN  /\ res.rooms[id].gameOver <=> run
                /\ HasEvent(res.out, "gameOver") <=> run
                /\ \A i \in 1..Len(res.out) :
                      res.out[i].event = "gameOver" =>
                          /\ res.out[i].to = "room" /\ PropKey(res.out[i].id) = id
                          /\ res.out[i].data.winner = role

\* a game that black won on the anti-diagonal (0,4) (1,3) (2,2) (3,1), both
\* players still seated
C9_Witness ==
    \E id \in DOMAIN rooms :
        /\ rooms[id].gameOver
        /\ Cardinality(Seated(rooms[id])) = 2
        /\ \A k \in 0..3 : Holds(rooms[id].grid, Num(0), Num(4), k, <<1, -1>>, Black)

\* C10: an accepted move that does not win hands the turn to the other
\* player role and broadcasts one turn event; an accepted move that wins
\* leaves currentPlayer as it was and broadcasts no turn event.
C10_TurnAlternates ==
    \A s \in connected, payload \in AllPayloads :
        (~crashed /\ Resolved(s, payload)
                  /\ Outcome(makeMove(s, payload)) = "accepted") =>
            LET id == TargetOf(s, payload)
                before == rooms[id].currentPlayer
                res == makeMove(s, payload)
                after == res.rooms[id].currentPlayer
                turns == {i \in 1..Len(res.out) : res.out[i].event = "turn"}
            IN  IF res.rooms[id].gameOver
                THEN after = before /\ turns = {}
                ELSE /\ {before, after} = {Black, White}
                     /\ Cardinality(turns) = 1
                     /\ \A i \in turns :
                           /\ res.out[i].to = "room" /\ PropKey(res.out[i].id) = id
                           /\ res.out[i].data.currentPlayer = after

\* a game black won with the row (0,1)..(0,4), white next to it on (0,5):
\* the turn is still black's
C10_Witness ==
    \E id \in DOMAIN rooms :
        /\ rooms[id].gameOver
        /\ rooms[id].currentPlayer = Black
        /\ \A k \in 0..3 : Holds(rooms[id].grid, Num(0), Num(1), k, <<0, 1>>, Black)
        /\ Holds(rooms[id].grid, Num(0), Num(5), 0, <<0, 1>>, White)

\* the registry key a restart addresses when socket s sends it with givenId
RestartTarget(s, givenId) ==
    PropKey(IF givenId = NoRoomId THEN findRoomForSocket(s) ELSE givenId)

\* a room as a restart must leave it
Restarted(room) ==
    [grid |-> [p \in {} |-> Null], players |-> room.players,
     roleById |-> room.roleById, currentPlayer |-> Black, gameOver |-> FALSE]

\* C11: a restart of an existing room, by any connection and from any state,
\* leaves that room with an empty grid, currentPlayer 'black' and gameOver
\* false, its players and roleById as they were; the restart of a room that
\* is in this state already (a second restart) changes nothing.
C11_RestartResetsTheGameOnly ==
    \A s \in connected, givenId \in JoinIds \cup {Seven} :
        (~crashed /\ RestartTarget(s, givenId) \in DOMAIN rooms) =>
            LET key == RestartTarget(s, givenId)
                res == restart(s, givenId)
            IN  /\ key \in DOMAIN res.rooms
                /\ res.rooms[key] = Restarted(rooms[key])
                /\ rooms[key] = Restarted(rooms[key]) => res.rooms = rooms

\* a restarted room (empty grid, black to move, not over) whose only seated
\* connection is white: black has left, which had ended the game
C11_Witness ==
    \E id \in DOMAIN rooms :
        /\ rooms[id].grid = createEmptyGrid
        /\ rooms[id].currentPlayer = Black
        /\ ~rooms[id].gameOver
        /\ Len(rooms[id].players) = 1
        /\ RoleOf(rooms[id], rooms[id].players[1]) = White

\* a room as the disconnect of socket s must leave it
Left(room, s) ==
    [grid |-> room.grid,
     players |-> SelectSeq(room.players, LAMBDA id : id # s),
     roleById |-> [t \in DOMAIN room.roleById \ {s} |-> room.roleById[t]],
     currentPlayer |-> room.currentPlayer,
     gameOver |-> TRUE]

\* C12: when a connection with a role in a room disconnects and the room
\* stays in the registry, the connection is gone from players and roleById,
\* gameOver is true, grid and currentPlayer are as before; and as long as
\* gameOver is true no makeMove to the room is accepted, whoever sends it.
C12_DisconnectEndsTheGame ==
    /\ [](\A id \in DOMAIN rooms :
             (~crashed /\ rooms[id].gameOver) =>
                 \A t \in connected, payload \in AllPayloads :
                     (Resolved(t, payload) /\ TargetOf(t, payload) = id) =>
                         /\ makeMove(t, payload).rooms = rooms
                         /\ Outcome(makeMove(t, payload)) = "Game is over.")
    /\ [][(connected' # connected /\ connected' \subseteq connected) =>
             LET s == CHOOSE x \in connected \ connected' : TRUE
             IN  \A id \in DOMAIN rooms \cap DOMAIN rooms' :
                     s \in DOMAIN rooms[id].roleById =>
                         rooms'[id] = Left(rooms[id], s)]_vars

\* a room with one piece that a seated player has left: the game is over and
\* the turn is that of the player who stayed
C12_Witness ==
    \E id \in DOMAIN rooms :
        /\ rooms[id].gameOver
        /\ Pieces(rooms[id].grid) = 1
        /\ Len(rooms[id].players) = 1
        /\ RoleOf(rooms[id], rooms[id].players[1]) = rooms[id].currentPlayer

\* the live sockets attached to the room under a registry key: those with a
\* role in it and those in a socket.io room of that name
AttachedTo(key) ==
    {t \in connected :
        \/ key \in DOMAIN rooms /\ t \in DOMAIN rooms[key].roleById \cup Seated(rooms[key])
        \/ \E i \in 1..Len(socketRooms[t]) : PropKey(socketRooms[t][i]) = key}

\* C13: a room leaves the registry only in the step in which a connection
\* attached to it disconnects, and then exactly when no other connection is
\* attached to it.
C13_DeletedIffLastLeaves ==
    [][/\ (connected' # connected /\ connected' \subseteq connected) =>
             LET s == CHOOSE x \in connected \ connected' : TRUE
             IN  \A key \in DOMAIN rooms :
                     s \in AttachedTo(key) =>
                         (key \notin DOMAIN rooms' <=> AttachedTo(key) \subseteq {s})
       /\ \A key \in DOMAIN rooms \ DOMAIN rooms' :
             /\ connected' # connected
             /\ AttachedTo(key) # {}
             /\ AttachedTo(key) \subseteq connected \ connected']_vars

\* the rooms in which socket s takes part
RoomsOf(s) ==
    {key \in DOMAIN rooms : s \in DOMAIN rooms[key].roleById \cup Seated(rooms[key])}

\* C14: every connection is a participant of at most one room.
C14_OneRoomPerConnection ==
    \A s \in connected : Cardinality(RoomsOf(s)) <= 1

\* the registry keys whose room a step creates, deletes or changes
Changed ==
    {key \in DOMAIN rooms \cup DOMAIN rooms' :
        \/ key \notin DOMAIN rooms \cap DOMAIN rooms'
        \/ rooms'[key] # rooms[key]}

\* C15: a joinRoom, makeMove or restart changes no room but the one it
\* addresses (no other room is created, deleted or modified); a disconnect
\* changes only rooms in which the leaving connection has a role.
C15_RoomsAreIndependent ==
    [][\/ Changed = {}
       \/ /\ \A s \in connected, roomId \in AnyIds :
                \/ Changed \subseteq {PropKey(roomId)}
                \/ connected' # connected
                \/ ~JoinRoom(s, roomId)
          /\ \A s \in connected, payload \in RoomsPayloads :
                \/ Changed \subseteq {TargetOf(s, payload)}
                \/ connected' # connected \/ socketRooms' # socketRooms
                \/ ~MakeMove(s, payload)
          /\ \A s \in connected, roomId \in AnyIds :
                \/ Changed \subseteq {RestartTarget(s, roomId)}
                \/ connected' # connected \/ socketRooms' # socketRooms
                \/ ~Restart(s, roomId)
          /\ \A s \in connected :
                \/ Changed \subseteq {key \in DOMAIN rooms : s \in DOMAIN rooms[key].roleById}
                \/ s \in connected'
                \/ ~Disconnect(s)]_vars

\* two rooms side by side: one in play with a piece on its grid, the other
\* ended by a disconnect with its grid still empty
C15_Witness ==
    \E k1 \in DOMAIN rooms, k2 \in DOMAIN rooms :
        /\ k1 # k2
        /\ Pieces(rooms[k1].grid) = 1 /\ ~rooms[k1].gameOver
        /\ Pieces(rooms[k2].grid) = 0 /\ rooms[k2].gameOver
        /\ rooms[k2].players # <<>>

\* C16: joinRoom with a room id succeeds (no error, a role is assigned) and
\* leaves grid, currentPlayer and gameOver of an existing room as they were;
\* when two participants are seated the joiner becomes 'spectator' and the
\* seated list stays as it was.
C16_JoinKeepsTheGame ==
    \A s \in connected, roomId \in (JoinIds \cup ManyIds) \ {NoRoomId} :
        ~crashed =>
            LET res == joinRoom(s, roomId)
                key == PropKey(roomId)
            IN  /\ ~res.threw
                /\ res.joined
                /\ HasEvent(res.out, "playerAssigned")
                /\ ~HasEvent(res.out, "errorMsg")
                /\ key \in DOMAIN res.rooms
                /\ LET old == IF key \in DOMAIN rooms THEN rooms[key] ELSE NewRoom
                       new == res.rooms[key]
                   IN  /\ new.grid = old.grid
                       /\ new.currentPlayer = old.currentPlayer
                       /\ new.gameOver = old.gameOver
                       /\ Len(old.players) = 2 =>
                             /\ new.roleById[s] = Spectator
                             /\ new.players = old.players

\* grid and currentPlayer of room id are in registry rs what they are now
SameGame(rs, id) ==
    id \in DOMAIN rs =>
        /\ rs[id].grid = rooms[id].grid
        /\ rs[id].currentPlayer = rooms[id].currentPlayer

\* C17: while gameOver is true in a room, no makeMove of any connection
\* changes anything (the seated player whose turn it is included), and no
\* createRoom, joinRoom or disconnect changes the room's grid or
\* currentPlayer: only a restart does.
C17_FrozenWhileOver ==
    \A id \in DOMAIN rooms :
        (~crashed /\ rooms[id].gameOver) =>
            /\ \A s \in connected, payload \in AllPayloads :
                  /\ SameGame(makeMove(s, payload).rooms, id)
                  /\ (Resolved(s, payload) /\ TargetOf(s, payload) = id) =>
                        /\ makeMove(s, payload).rooms = rooms
                        /\ Outcome(makeMove(s, payload)) = "Game is over."
            /\ \A s \in connected, roomId \in JoinIds \cup ManyIds :
                  /\ SameGame(joinRoom(s, roomId).rooms, id)
                  /\ SameGame(ensureRoom(rooms, roomId), id)
            /\ \A s \in connected :
                  SameGame(disconnectScan(roomOrder, rooms, s,
                                          [socketRooms EXCEPT ![s] = <<>>],
                                          connected \ {s}).rooms, id)

\* a finished game in which the seated player whose turn it is sends a move
\* to an empty cell
C17_Witness ==
    \E id \in DOMAIN rooms :
        /\ rooms[id].gameOver
        /\ \E s \in Seated(rooms[id]) \cap connected, payload \in AllPayloads :
              /\ Resolved(s, payload) /\ TargetOf(s, payload) = id
              /\ RoleOf(rooms[id], s) = rooms[id].currentPlayer
              /\ IsIndex(payload.r) /\ IsIndex(payload.c)
              /\ CellKey(payload) \notin DOMAIN rooms[id].grid

\* the cells of the grid (its elements; other properties are no cells)
Cells == {<<r, c>> : r \in 0..(SIZE - 1), c \in 0..(SIZE - 1)}
CellIs(grid, cell, v) == Elem(grid, Num(cell[1]), Num(cell[2])) = v

\* C18: in a room that is not over, has two seated participants and an empty
\* cell, some seated participant's makeMove on an empty cell is accepted.
C18_SomeoneCanMove ==
    \A id \in DOMAIN rooms :
        LET room == rooms[id]
            free == {cell \in Cells : CellIs(room.grid, cell, Null)}
        IN  (~crashed /\ ~room.gameOver /\ Len(room.players) = 2 /\ free # {}) =>
                \E s \in Seated(room), cell \in free :
                    LET res == makeMove(s, MovePayload(id, Num(cell[1]), Num(cell[2])))
                    IN  ~res.threw /\ HasEvent(res.out, "updateBoard")

\* a scan of the whole board: some cell starts four contiguous cells of one
\* role down a column, along a row or along a diagonal
LineOnGrid(grid) ==
    \E p \in DOMAIN grid :
        /\ p[2][2] = 0
        /\ \E d \in {<<1, 0>>, <<0, 1>>, <<1, 1>>, <<1, -1>>} :
              \A k \in 0..3 : Holds(grid, Num(p[1]), Num(p[2][1]), k, d, grid[p])

\* C19: a grid that holds four contiguous cells of one role on a row, a
\* column or a diagonal belongs to a room whose gameOver is true.
C19_NoPlayPastAWin ==
    \A id \in DOMAIN rooms : LineOnGrid(rooms[id].grid) => rooms[id].gameOver

\* a game black won on column 1, with seven pieces on the grid
C19_Witness ==
    \E id \in DOMAIN rooms :
        /\ rooms[id].gameOver
        /\ Pieces(rooms[id].grid) = MaxGamePieces
        /\ \A k \in 0..3 : Holds(rooms[id].grid, Num(0), Num(1), k, <<1, 0>>, Black)

\* the cells of a grid that hold role
CountOf(grid, role) ==
    Cardinality({p \in DOMAIN grid : p[2][2] = 0 /\ grid[p] = role})

\* C20: black has as many cells as white or one more; while no line of four
\* is on the grid, it is black's turn exactly when the counts are equal and
\* white's exactly when black has one more.
C20_PieceCountParity ==
    \A id \in DOMAIN rooms :
        LET room == rooms[id]
            black == CountOf(room.grid, Black)
            white == CountOf(room.grid, White)
        IN  /\ black - white \in {0, 1}
            /\ ~LineOnGrid(room.grid) =>
                  /\ room.currentPlayer = Black <=> black = white
                  /\ room.currentPlayer = White <=> black = white + 1

====
